---- MODULE Spec2Model ----
(***************************************************************************)
(* The /interactions handler of src/src/app.ts: the interaction router,    *)
(* the activeGames session store and the accept / select game flow.        *)
(*                                                                         *)
(* Strings that the code takes apart or puts together (interaction ids,    *)
(* custom ids) are sequences of tokens, so that `accept_button_${id}`,     *)
(* startsWith and replace are computed and not assumed.  Optional payload  *)
(* fields are sequences of length 0 (absent) or 1 (present).               *)
(*                                                                         *)
(* Node runs one handler at a time up to its next await, so a handler      *)
(* without an await before its return is one action.  The accept branch    *)
(* awaits twice and is three actions; other events interleave in between.  *)
(***************************************************************************)
EXTENDS Integers, Sequences, FiniteSets, Bags, TLC

\* Number of accept handlers that may be suspended at an await at once.
MaxHandlers == 2

-----------------------------------------------------------------------------
(* Payload domains *)

\* Interaction ids as the platform issues them.
GameIds == {<<"m1">>, <<"m2">>}

Users == {"U1", "U2"}

\* The catalog of game.js, as listed in the specification.
RPSChoices == {"rock", "paper", "scissors"}

\* Values an option or a select menu may carry: the catalog and a value
\* outside of it.
ObjectNames == RPSChoices \cup {"banana"}

\* Id of the public challenge message an accept button sits on.
MessageIds == {"p1"}
\* The public challenge messages of the ordered protocol, one per challenge.
PublicMessageIds == {"p1", "p2"}

Emojis == {"e1", "e2"}

AcceptPrefix == "accept_button_"

SelectPrefix == "select_choice_"

Absent == <<>>

Maybe(S) == {Absent} \cup {<<x>> : x \in S}

\* !x for an optional string.
Falsy(x) == x = Absent

\* The fields of req.body the handler reads (DiscordInteractionRequest).
BaseRequest ==
  [id |-> <<"m1">>, type |-> "PING", name |-> Absent, custom_id |-> Absent,
   values |-> <<>>, options |-> <<>>, context |-> 0, member |-> Absent,
   user |-> Absent, message |-> Absent]

PingRequests == {BaseRequest}

OtherTypeRequests == {[BaseRequest EXCEPT !.type = "APPLICATION_COMMAND_AUTOCOMPLETE"]}

CommandRequests ==
  {[BaseRequest EXCEPT !.type = "APPLICATION_COMMAND", !.name = n] :
     n \in {Absent, <<"test">>, <<"foo">>}}

\* The platform puts the acting user in member (guild) or in user (direct
\* message), never in both; either may be missing.
UserFields ==
  {f \in [context : {0, 1}, member : Maybe(Users), user : Maybe(Users)] :
     f.member = Absent \/ f.user = Absent}

ChallengeRequests ==
  {[BaseRequest EXCEPT !.type = "APPLICATION_COMMAND", !.name = <<"challenge">>,
                       !.id = i, !.context = f.context, !.member = f.member,
                       !.user = f.user, !.options = o] :
     i \in GameIds, f \in UserFields, o \in Maybe(ObjectNames)}

AcceptRequests ==
  {[BaseRequest EXCEPT !.type = "MESSAGE_COMPONENT",
                       !.custom_id = <<(<<AcceptPrefix>> \o g)>>,
                       !.message = <<p>>] :
     g \in GameIds, p \in MessageIds}

SelectRequests ==
  {[BaseRequest EXCEPT !.type = "MESSAGE_COMPONENT",
                       !.custom_id = <<(<<SelectPrefix>> \o g)>>,
                       !.context = f.context, !.member = f.member,
                       !.user = f.user, !.values = v] :
     g \in GameIds, f \in UserFields, v \in Maybe(ObjectNames)}

StrayComponentRequests ==
  {[BaseRequest EXCEPT !.type = "MESSAGE_COMPONENT", !.custom_id = k] :
     k \in {Absent, << <<"foo_", "m1">> >>, << <<"foo_", AcceptPrefix, "m1">> >>}}

Requests ==
  PingRequests \cup OtherTypeRequests \cup CommandRequests \cup ChallengeRequests
    \cup AcceptRequests \cup SelectRequests \cup StrayComponentRequests

-----------------------------------------------------------------------------
(* String helpers *)

\* String.prototype.startsWith, for a one-token prefix.
StartsWith(s, prefix) == Len(s) >= 1 /\ s[1] = prefix

\* String.prototype.replace with a string pattern: the first occurrence of
\* the token is removed, the rest is kept.
Replace(s, pattern) ==
  IF \E i \in 1..Len(s) : s[i] = pattern
  THEN LET i == CHOOSE k \in 1..Len(s) :
                  s[k] = pattern /\ \A j \in 1..(k - 1) : s[j] # pattern
       IN  SubSeq(s, 1, i - 1) \o SubSeq(s, i + 1, Len(s))
  ELSE s

\* componentId?.startsWith(prefix)
ComponentHasPrefix(req, prefix) ==
  /\ req.custom_id # Absent
  /\ StartsWith(req.custom_id[1], prefix)

-----------------------------------------------------------------------------
(* game.js, which is not among the sources: modelled from the specification *)

Beats(a, b) ==
  <<a, b>> \in {<<"rock", "scissors">>, <<"paper", "rock">>, <<"scissors", "paper">>}

\* Outcome Resolver: the relation of a to b and the winning choice.
resolve(a, b) ==
  IF a = b THEN [relation |-> "TIE", winner |-> Absent]
  ELSE IF Beats(a, b) THEN [relation |-> "WIN", winner |-> <<a>>]
  ELSE IF Beats(b, a) THEN [relation |-> "LOSE", winner |-> <<b>>]
  ELSE [relation |-> "UNDEFINED", winner |-> Absent]

\* The result string names the winning user's identifier.
getResult(p1, p2) ==
  LET r == resolve(p1.objectName, p2.objectName)
  IN  CASE r.relation = "WIN"  -> [text |-> "wins", user |-> <<p1.id>>]
        [] r.relation = "LOSE" -> [text |-> "wins", user |-> <<p2.id>>]
        [] r.relation = "TIE"  -> [text |-> "tie", user |-> Absent]
        [] OTHER               -> [text |-> "undefined", user |-> Absent]

\* Every ordering of the catalog, as select-menu options.
ShuffledOptions ==
  {s \in [1..Cardinality(RPSChoices) -> RPSChoices] :
     \A c \in RPSChoices : \E i \in DOMAIN s : s[i] = c}

-----------------------------------------------------------------------------
(* Response payloads *)

\* Mutant: the verification is answered with a channel message.
PongAsMessage == [status |-> 200, type |-> "CHANNEL_MESSAGE_WITH_SOURCE"]

Pong == [status |-> 200, type |-> "PONG"]

ChannelMessage(data) ==
  [status |-> 200, type |-> "CHANNEL_MESSAGE_WITH_SOURCE", data |-> data]

ClientError(reason) == [status |-> 400, error |-> reason]

HelloWorld(emoji) == ChannelMessage([content |-> <<"hello world", emoji>>])

\* Mutant: the interaction id is left out of the button's custom id.
AcceptButtonIdWithoutId(id) == <<AcceptPrefix>>

AcceptButtonId(id) == <<AcceptPrefix>> \o id

ChallengeMessage(userId, id) ==
  ChannelMessage(
    [content |-> <<"Rock papers scissors challenge from", userId>>,
     components |->
       << [type |-> "ACTION_ROW",
           components |->
             << [type |-> "BUTTON", custom_id |-> AcceptButtonId(id),
                 label |-> "Accept", style |-> "PRIMARY"] >>] >>])

\* Mutant: the menu names one fixed session, whatever the accept named.
SelectMenuIdOfFirstGame(gameId) == <<SelectPrefix, "m1">>

SelectMenuId(gameId) == <<SelectPrefix>> \o gameId

ChoiceMenu(gameId, options) ==
  ChannelMessage(
    [content |-> "What is your object of choice?",
     flags |-> "EPHEMERAL",
     components |->
       << [type |-> "ACTION_ROW",
           components |->
             << [type |-> "STRING_SELECT", custom_id |-> SelectMenuId(gameId),
                 options |-> options] >>] >>])

ResultMessage(resultStr) == ChannelMessage([content |-> resultStr])

\* The components a response puts before the client, over its action rows.
ComponentsIn(response) ==
  IF "data" \in DOMAIN response /\ "components" \in DOMAIN response.data
  THEN UNION {{row.components[i] : i \in DOMAIN row.components} :
                row \in {response.data.components[j] :
                           j \in DOMAIN response.data.components}}
  ELSE {}

\* `webhooks/${APP_ID}/${token}/messages/${message?.id}`
Endpoint(req) == [path |-> "webhooks/messages", message |-> req.message]

-----------------------------------------------------------------------------
(* Handler locals *)

\* Mutant: the other field is read when the chosen one is absent.
ActingUserWithFallback(req) ==
  IF req.context = 0
  THEN (IF req.member # Absent THEN req.member ELSE req.user)
  ELSE (IF req.user # Absent THEN req.user ELSE req.member)

\* context === 0 ? req.body.member?.user.id : req.body.user?.id
ActingUser(req) == IF req.context = 0 THEN req.member ELSE req.user

\* req.body.data.options?.[0]?.value
FirstOption(req) == IF Len(req.options) >= 1 THEN <<req.options[1]>> ELSE Absent

\* data.values?.[0]
FirstValue(req) == IF Len(req.values) >= 1 THEN <<req.values[1]>> ELSE Absent

\* Mutant: the prefix is not stripped from the custom id.
GameIdOfAcceptUnstripped(componentId) == componentId

GameIdOfAccept(componentId) == Replace(componentId, AcceptPrefix)

GameIdOfSelect(componentId) == Replace(componentId, SelectPrefix)

-----------------------------------------------------------------------------
(* State *)

VARIABLES
  activeGames,  \* the session store: live game ids -> {id, objectName}
  suspended,    \* accept handlers waiting at an await: a bag of continuations
  turn,         \* what the handler step that just ran received and did
  observed,     \* ids whose live session a select has read and left in place
  resolved,     \* ids whose latest session has had its result message sent
  ledger        \* what the clients of the ordered protocol have been sent

vars == <<activeGames, suspended, turn, observed, resolved, ledger>>

NoGames == [g \in {} |-> [id |-> "U1", objectName |-> "rock"]]

\* Mutant: an existing entry is kept, the new challenge is dropped.
CreateGameKeepsFirst(games, id, userId, objectName) ==
  [g \in (DOMAIN games) \cup {id} |->
     IF g \in DOMAIN games THEN games[g]
     ELSE [id |-> userId, objectName |-> objectName]]

\* activeGames[id] = {id: userId, objectName}
CreateGame(games, id, userId, objectName) ==
  [g \in (DOMAIN games) \cup {id} |->
     IF g = id THEN [id |-> userId, objectName |-> objectName] ELSE games[g]]

\* Mutant: the whole store is cleared.
DeleteGameClearsAll(games, gameId) == [g \in {} |-> games[g]]

\* Mutant: the delete is forgotten.
DeleteGameForgotten(games, gameId) == games

\* delete activeGames[gameId]
DeleteGame(games, gameId) == [g \in (DOMAIN games) \ {gameId} |-> games[g]]

\* if (activeGames[gameId])
HasGame(games, gameId) == gameId \in DOMAIN games

Quiet == [step |-> "quiet"]

\* One run of the handler, from an event or an await to its next await or
\* its return: the request, the responses sent on res, the outbound webhook
\* requests issued, and the store and history as they were before it ran.
Turn(step, req, sent, webhooks) ==
  [step |-> step, req |-> req, sent |-> sent, webhooks |-> webhooks,
   pre |-> activeGames, preObserved |-> observed, preResolved |-> resolved,
   sawGame |-> FALSE, resolverArgs |-> Absent, threw |-> FALSE,
   failed |-> FALSE]

\* The locals an accept handler keeps across an await, with res.headersSent.
Continuation(pc, endpoint) ==
  [pc |-> pc, endpoint |-> endpoint, headersSent |-> TRUE]

\* The ledger of the ordered protocol: the components sent to clients, the
\* ids a challenge created a session for and the ids an accept extracted,
\* and for each public message the accepts handled on it, the DELETE
\* requests issued for it, whether it is gone, and whether a DELETE of it
\* failed after that.
NoLedger ==
  [issued |-> {}, challenged |-> {}, accepted |-> {},
   accepts |-> [p \in PublicMessageIds |-> 0],
   deletes |-> [p \in PublicMessageIds |-> 0],
   deleted |-> {}, lateFailure |-> {}]

Init ==
  /\ activeGames = NoGames
  /\ suspended = EmptyBag
  /\ turn = Quiet
  /\ observed = {}
  /\ resolved = {}
  /\ ledger = NoLedger

-----------------------------------------------------------------------------
(* The router: one action per branch of the handler *)

IsPing(req) == req.type = "PING"

IsCommand(req) == ~IsPing(req) /\ req.type = "APPLICATION_COMMAND"

IsComponent(req) ==
  ~IsPing(req) /\ ~IsCommand(req) /\ req.type = "MESSAGE_COMPONENT"

IsTest(req) == IsCommand(req) /\ req.name = <<"test">>

\* name === "challenge" && id
IsChallenge(req) ==
  IsCommand(req) /\ ~IsTest(req) /\ req.name = <<"challenge">> /\ req.id # <<>>

IsAccept(req) == IsComponent(req) /\ ComponentHasPrefix(req, AcceptPrefix)

IsSelect(req) ==
  IsComponent(req) /\ ~IsAccept(req) /\ ComponentHasPrefix(req, SelectPrefix)

\* if (type === InteractionType.PING)
Ping(req) ==
  /\ turn = Quiet
  /\ IsPing(req)
  /\ turn' = Turn("ping", req, <<Pong>>, <<>>)
  /\ UNCHANGED <<activeGames, suspended, observed, resolved>>

\* if (name === "test")
TestCommand(req) ==
  /\ turn = Quiet
  /\ IsTest(req)
  /\ \E emoji \in Emojis : turn' = Turn("test", req, <<HelloWorld(emoji)>>, <<>>)
  /\ UNCHANGED <<activeGames, suspended, observed, resolved>>

\* if (!userId || !objectName)
ChallengeRejected(userId, objectName) == Falsy(userId) \/ Falsy(objectName)

\* if (name === "challenge" && id)
ChallengeCommand(req) ==
  /\ turn = Quiet
  /\ IsChallenge(req)
  /\ LET userId == ActingUser(req)
         objectName == FirstOption(req)
     IN  IF ChallengeRejected(userId, objectName)
         THEN /\ turn' = Turn("challenge", req, <<ClientError("invalid request")>>, <<>>)
              /\ UNCHANGED <<activeGames, observed, resolved>>
         ELSE /\ activeGames' = CreateGame(activeGames, req.id, userId[1], objectName[1])
              /\ turn' = Turn("challenge", req, <<ChallengeMessage(userId[1], req.id)>>, <<>>)
              /\ observed' = observed \ {req.id}
              /\ resolved' = resolved \ {req.id}
  /\ UNCHANGED suspended

\* console.error(`unknown command: ${name}`)
UnknownCommand(req) ==
  /\ turn = Quiet
  /\ IsCommand(req) /\ ~IsTest(req) /\ ~IsChallenge(req)
  /\ turn' = Turn("unknownCommand", req, <<ClientError("unknown command")>>, <<>>)
  /\ UNCHANGED <<activeGames, suspended, observed, resolved>>

\* The accept branch up to `await res.send(...)`.
AcceptButton(req) ==
  /\ turn = Quiet
  /\ IsAccept(req)
  /\ BagCardinality(suspended) < MaxHandlers
  /\ LET gameId == GameIdOfAccept(req.custom_id[1])
         endpoint == Endpoint(req)
     IN  /\ \E options \in ShuffledOptions :
              turn' = Turn("accept", req, <<ChoiceMenu(gameId, options)>>, <<>>)
         /\ suspended' = suspended (+) SetToBag({Continuation("awaitSend", endpoint)})
  /\ UNCHANGED <<activeGames, observed, resolved>>

\* Mutant: the accept branch edits the public message instead.
DeleteRequestAsEdit(endpoint) == [method |-> "PATCH", endpoint |-> endpoint]

\* The outbound request of DiscordRequest(endpoint, { method: "DELETE" }).
DeleteRequest(endpoint) == [method |-> "DELETE", endpoint |-> endpoint]

\* From `await res.send(...)` to `await DiscordRequest(endpoint, DELETE)`.
AcceptRequestDelete(k) ==
  /\ turn = Quiet
  /\ k.pc = "awaitSend"
  /\ BagIn(k, suspended)
  /\ suspended' = (suspended (-) SetToBag({k}))
                    (+) SetToBag({Continuation("awaitDelete", k.endpoint)})
  /\ turn' = Turn("acceptDelete", Absent, <<>>, <<DeleteRequest(k.endpoint)>>)
  /\ UNCHANGED <<activeGames, observed, resolved>>

\* Mutant: the catch answers with an error on a response already sent.
CatchErrorResponds(t) ==
  [t EXCEPT !.failed = TRUE, !.sent = <<[status |-> 500, error |-> "error"]>>]

\* Mutant: the error of the outbound call escapes the handler.
CatchErrorRethrown(t) == [t EXCEPT !.failed = TRUE, !.threw = TRUE]

\* catch (err) { console.error("Error sending message:", err); }
CatchError(t) == [t EXCEPT !.failed = TRUE, !.threw = FALSE]

\* The DELETE settles: the handler returns, through the catch when it failed.
AcceptSettled(k, ok) ==
  /\ turn = Quiet
  /\ k.pc = "awaitDelete"
  /\ BagIn(k, suspended)
  /\ suspended' = suspended (-) SetToBag({k})
  /\ turn' = IF ok THEN Turn("acceptSettled", Absent, <<>>, <<>>)
                   ELSE CatchError(Turn("acceptSettled", Absent, <<>>, <<>>))
  /\ UNCHANGED <<activeGames, observed, resolved>>

\* getResult(activeGames[gameId], { id: userId, objectName })
ResultFor(game, userId, objectName) ==
  getResult(game, [id |-> userId, objectName |-> objectName])

\* Mutant: the follow-up edit is requested before the handler returns.
SelectFollowUpRequested(endpoint) ==
  <<[method |-> "PATCH", endpoint |-> endpoint]>>

\* The outbound requests of the select branch.  The PATCH of the ephemeral
\* menu stands after `return res.send(...)` and is never reached.
SelectFollowUp(endpoint) == <<>>

\* Mutant: the game is never removed.
GamesAfterSelectKept(games, gameId, userId, objectName) == games

\* Mutant: the game is taken before the checks, whatever they find.
GamesAfterSelectTaken(games, gameId, userId, objectName) ==
  DeleteGame(games, gameId)

\* The store a select leaves behind when a game was found: the game is
\* deleted after the acting user and the choice have passed their checks.
GamesAfterSelect(games, gameId, userId, objectName) ==
  IF Falsy(userId) \/ Falsy(objectName) THEN games ELSE DeleteGame(games, gameId)

\* Mutant: the branch ends in an error response.
ComponentFallThroughError == <<ClientError("unknown command")>>

\* The bare `return;` that ends the MESSAGE_COMPONENT branch: nothing is sent.
ComponentFallThrough == <<>>

\* else if (componentId?.startsWith("select_choice_"))
SelectChoice(req) ==
  /\ turn = Quiet
  /\ IsSelect(req)
  /\ LET gameId == GameIdOfSelect(req.custom_id[1])
         userId == ActingUser(req)
         objectName == FirstValue(req)
     IN  IF ~HasGame(activeGames, gameId)
         THEN /\ turn' = Turn("select", req, ComponentFallThrough, <<>>)
              /\ UNCHANGED <<activeGames, observed, resolved>>
         ELSE /\ activeGames' = GamesAfterSelect(activeGames, gameId, userId, objectName)
              /\ IF Falsy(userId)
                 THEN /\ turn' = [Turn("select", req, <<ClientError("invalid user")>>, <<>>)
                                    EXCEPT !.sawGame = TRUE]
                      /\ observed' = observed \cup {gameId}
                      /\ UNCHANGED resolved
                 ELSE IF Falsy(objectName)
                 THEN /\ turn' = [Turn("select", req, <<ClientError("invalid choice")>>, <<>>)
                                    EXCEPT !.sawGame = TRUE]
                      /\ observed' = observed \cup {gameId}
                      /\ UNCHANGED resolved
                 ELSE /\ turn' =
                           [Turn("select", req,
                                 <<ResultMessage(ResultFor(activeGames[gameId],
                                                           userId[1], objectName[1]))>>,
                                 SelectFollowUp(Endpoint(req)))
                              EXCEPT !.sawGame = TRUE,
                                     !.resolverArgs =
                                        << <<activeGames[gameId].objectName,
                                             objectName[1]>> >>]
                      /\ resolved' = resolved \cup {gameId}
                      /\ observed' = observed \ {gameId}
  /\ UNCHANGED suspended

\* A component that is neither an accept button nor a select menu.
StrayComponent(req) ==
  /\ turn = Quiet
  /\ IsComponent(req) /\ ~IsAccept(req) /\ ~IsSelect(req)
  /\ turn' = Turn("strayComponent", req, ComponentFallThrough, <<>>)
  /\ UNCHANGED <<activeGames, suspended, observed, resolved>>

\* console.error("unknown interaction type", type)
UnknownType(req) ==
  /\ turn = Quiet
  /\ ~IsPing(req) /\ ~IsCommand(req) /\ ~IsComponent(req)
  /\ turn' = Turn("unknownType", req, <<ClientError("unknown interaction type")>>, <<>>)
  /\ UNCHANGED <<activeGames, suspended, observed, resolved>>

\* The handler step has returned; the event loop takes the next task.
NextTick ==
  /\ turn # Quiet
  /\ turn' = Quiet
  /\ UNCHANGED <<activeGames, suspended, observed, resolved>>

Continuations ==
  {Continuation(pc, [path |-> "webhooks/messages", message |-> <<p>>]) :
     pc \in {"awaitSend", "awaitDelete"}, p \in MessageIds}

\* The server under arbitrary clients; the ledger is kept only under the
\* ordered protocol below.
Next ==
  \/ \E req \in Requests : Ping(req) /\ UNCHANGED ledger
  \/ \E req \in Requests : TestCommand(req) /\ UNCHANGED ledger
  \/ \E req \in Requests : ChallengeCommand(req) /\ UNCHANGED ledger
  \/ \E req \in Requests : UnknownCommand(req) /\ UNCHANGED ledger
  \/ \E req \in Requests : AcceptButton(req) /\ UNCHANGED ledger
  \/ \E k \in Continuations : AcceptRequestDelete(k) /\ UNCHANGED ledger
  \/ \E k \in Continuations, ok \in BOOLEAN :
       AcceptSettled(k, ok) /\ UNCHANGED ledger
  \/ \E req \in Requests : SelectChoice(req) /\ UNCHANGED ledger
  \/ \E req \in Requests : StrayComponent(req) /\ UNCHANGED ledger
  \/ \E req \in Requests : UnknownType(req) /\ UNCHANGED ledger
  \/ NextTick /\ UNCHANGED ledger

Spec == Init /\ [][Next]_vars

-----------------------------------------------------------------------------
(* The ordered protocol: clients submit only the components they were sent *)

\* Accepts handled on one public message.
MaxAccepts == 2

\* The message the platform posts for the answer to interaction id.
PublicMessageOf(id) == IF id = <<"m1">> THEN "p1" ELSE "p2"

\* Challenge commands as the platform sends them from a guild: a fresh
\* interaction id, the member, one catalog choice.
OrderlyChallenges ==
  {[BaseRequest EXCEPT !.type = "APPLICATION_COMMAND", !.name = <<"challenge">>,
                       !.id = i, !.member = <<u>>, !.options = <<o>>] :
     i \in GameIds, u \in Users, o \in RPSChoices}

\* The components of the responses of a turn, each with the message that
\* carries it: the public message of a command's answer, none recorded for
\* an ephemeral answer to a component.
IssuedBy(t) ==
  {[type |-> c.type, custom_id |-> c.custom_id,
    message |-> IF t.req.type = "APPLICATION_COMMAND"
                THEN <<PublicMessageOf(t.req.id)>> ELSE Absent] :
     c \in UNION {ComponentsIn(t.sent[i]) : i \in DOMAIN t.sent}}

\* A button a client holds, pressed.
Press(e) ==
  [BaseRequest EXCEPT !.type = "MESSAGE_COMPONENT", !.custom_id = <<e.custom_id>>,
                      !.message = e.message]

\* A menu a client holds, with a choice selected by a guild member.
Select(e, u, v) ==
  [Press(e) EXCEPT !.member = <<u>>, !.values = <<v>>]

\* The DELETE requests a turn issued for public message p.
DeletesIn(t, p) ==
  Cardinality({i \in DOMAIN t.webhooks :
                 /\ t.webhooks[i].method = "DELETE"
                 /\ t.webhooks[i].endpoint.message = <<p>>})

ProtocolPing(req) ==
  /\ Ping(req)
  /\ UNCHANGED ledger

ProtocolChallenge(req) ==
  /\ req.id \notin ledger.challenged
  /\ ChallengeCommand(req)
  /\ ledger' = [ledger EXCEPT !.issued = @ \cup IssuedBy(turn'),
                               !.challenged = @ \cup (DOMAIN activeGames' \cap {req.id})]

ProtocolAccept(e) ==
  /\ e \in ledger.issued
  /\ e.type = "BUTTON"
  /\ ledger.accepts[e.message[1]] < MaxAccepts
  /\ AcceptButton(Press(e))
  /\ ledger' = [ledger EXCEPT !.issued = @ \cup IssuedBy(turn'),
                               !.accepted = @ \cup {GameIdOfAccept(e.custom_id)},
                               !.accepts[e.message[1]] = @ + 1]

ProtocolRequestDelete(k) ==
  /\ AcceptRequestDelete(k)
  /\ ledger' = [ledger EXCEPT
                  !.deletes = [p \in PublicMessageIds |-> @[p] + DeletesIn(turn', p)]]

\* The platform deletes a message once: a DELETE of a message that is gone
\* fails; any DELETE may fail for other reasons.
ProtocolSettled(k, ok) ==
  /\ ok => k.endpoint.message[1] \notin ledger.deleted
  /\ AcceptSettled(k, ok)
  /\ ledger' = [ledger EXCEPT
                  !.deleted = IF ok THEN @ \cup {k.endpoint.message[1]} ELSE @,
                  !.lateFailure =
                     IF ~ok /\ k.endpoint.message[1] \in ledger.deleted
                     THEN @ \cup {k.endpoint.message[1]} ELSE @]

ProtocolSelect(e, u, v) ==
  /\ e \in ledger.issued
  /\ e.type = "STRING_SELECT"
  /\ SelectChoice(Select(e, u, v))
  /\ UNCHANGED ledger

ProtocolTick ==
  /\ NextTick
  /\ UNCHANGED ledger

PublicContinuations ==
  {Continuation(pc, [path |-> "webhooks/messages", message |-> <<p>>]) :
     pc \in {"awaitSend", "awaitDelete"}, p \in PublicMessageIds}

ProtocolNext ==
  \/ \E req \in PingRequests : ProtocolPing(req)
  \/ \E req \in OrderlyChallenges : ProtocolChallenge(req)
  \/ \E e \in ledger.issued : ProtocolAccept(e)
  \/ \E k \in PublicContinuations : ProtocolRequestDelete(k)
  \/ \E k \in PublicContinuations, ok \in BOOLEAN : ProtocolSettled(k, ok)
  \/ \E e \in ledger.issued, u \in Users, v \in RPSChoices : ProtocolSelect(e, u, v)
  \/ ProtocolTick

ProtocolSpec == Init /\ [][ProtocolNext]_vars

-----------------------------------------------------------------------------
(* Vocabulary of the properties *)

\* The session id a select or accept request names: its custom id without
\* the leading prefix token.
NamedGame(req) == Tail(req.custom_id[1])

\* The payload field the execution context selects carries an identifier.
UserResolvable(req) ==
  \/ req.context = 0 /\ req.member # Absent
  \/ req.context # 0 /\ req.user # Absent

ResolvedUser(req) == IF req.context = 0 THEN req.member[1] ELSE req.user[1]

IsClientError(response, reason) ==
  /\ response.status = 400
  /\ response.error = reason

\* The response is a channel message whose content is a game result.
IsResultMessage(response) ==
  /\ response.status = 200
  /\ response.type = "CHANNEL_MESSAGE_WITH_SOURCE"
  /\ DOMAIN response.data = {"content"}
  /\ response.data.content.text \in {"wins", "tie", "undefined"}

SelectTurn == turn.step = "select"

SentResult == SelectTurn /\ Len(turn.sent) = 1 /\ IsResultMessage(turn.sent[1])

\* All components of the message, over its action rows.
ComponentsOf(response) ==
  {c \in UNION {{row.components[i] : i \in DOMAIN row.components} :
                  row \in {response.data.components[j] :
                             j \in DOMAIN response.data.components}} : TRUE}

-----------------------------------------------------------------------------
(* C1 *)

-----------------------------------------------------------------------------
(* C2 *)

ChallengeTurn == turn.step = "challenge"

\* C2: a challenge command with interaction id M, a resolvable acting user U
\* and a first option value C leaves the session {id: U, objectName: C}
\* under key M, and is answered with one public channel message that holds
\* exactly one component, a button with custom id "accept_button_" + M.
C2_ChallengeCreatesSession ==
  (ChallengeTurn /\ UserResolvable(turn.req) /\ turn.req.options # <<>>) =>
     /\ turn.req.id \in DOMAIN activeGames
     /\ activeGames[turn.req.id] =
          [id |-> ResolvedUser(turn.req), objectName |-> turn.req.options[1]]
     /\ Len(turn.sent) = 1
     /\ turn.sent[1].status = 200
     /\ turn.sent[1].type = "CHANNEL_MESSAGE_WITH_SOURCE"
     /\ "flags" \notin DOMAIN turn.sent[1].data
     /\ ComponentsOf(turn.sent[1]) =
          {[type |-> "BUTTON", custom_id |-> <<AcceptPrefix>> \o turn.req.id,
            label |-> "Accept", style |-> "PRIMARY"]}
     /\ Len(turn.sent[1].data.components) = 1
     /\ Len(turn.sent[1].data.components[1].components) = 1

C2_ChallengeAccepted ==
  /\ ChallengeTurn
  /\ turn.req.id = <<"m2">>
  /\ turn.req.context = 1
  /\ turn.req.user = <<"U2">>
  /\ turn.req.options = <<"paper">>
  /\ <<"m1">> \in DOMAIN activeGames

-----------------------------------------------------------------------------
(* C3 *)

\* C3: a select for M handled while a session for M is live, with a
\* resolvable responder and a selected value, is answered with the result
\* computed from the stored challenger and the responder, which names the
\* challenger's user id as winner when the stored choice beats the
\* responder's; afterwards the store holds no session for M.
C3_SelectResolvesAndRemoves ==
  (/\ SelectTurn
   /\ NamedGame(turn.req) \in DOMAIN turn.pre
   /\ UserResolvable(turn.req)
   /\ turn.req.values # <<>>) =>
     LET stored == turn.pre[NamedGame(turn.req)]
         responder == [id |-> ResolvedUser(turn.req),
                       objectName |-> turn.req.values[1]]
     IN  /\ turn.sent = <<ResultMessage(getResult(stored, responder))>>
         /\ Beats(stored.objectName, responder.objectName) =>
              turn.sent[1].data.content = [text |-> "wins", user |-> <<stored.id>>]
         /\ NamedGame(turn.req) \notin DOMAIN activeGames
         /\ \A g \in DOMAIN turn.pre \ {NamedGame(turn.req)} :
              g \in DOMAIN activeGames /\ activeGames[g] = turn.pre[g]

C3_RockBeatsScissors ==
  /\ SelectTurn
  /\ NamedGame(turn.req) = <<"m1">>
  /\ <<"m1">> \in DOMAIN turn.pre
  /\ turn.pre[<<"m1">>] = [id |-> "U1", objectName |-> "rock"]
  /\ turn.req.context = 0
  /\ turn.req.member = <<"U2">>
  /\ turn.req.values = <<"scissors">>
  /\ turn.sent[1].data.content = [text |-> "wins", user |-> <<"U1">>]
  /\ <<"m1">> \notin DOMAIN activeGames

-----------------------------------------------------------------------------
(* C4 *)

-----------------------------------------------------------------------------
(* C5 *)

-----------------------------------------------------------------------------
(* C6 *)

AcceptTurn == turn.step = "accept"

\* C6: an accept with custom id "accept_button_" + M is answered with one
\* ephemeral message holding a selection menu with custom id
\* "select_choice_" + M, and leaves the session store unchanged, whether or
\* not a session for M exists.
C6_AcceptAnswersWithMenu ==
  AcceptTurn =>
     /\ Len(turn.sent) = 1
     /\ turn.sent[1].status = 200
     /\ turn.sent[1].type = "CHANNEL_MESSAGE_WITH_SOURCE"
     /\ turn.sent[1].data.flags = "EPHEMERAL"
     /\ Cardinality(ComponentsOf(turn.sent[1])) = 1
     /\ \A c \in ComponentsOf(turn.sent[1]) :
          /\ c.type = "STRING_SELECT"
          /\ c.custom_id = <<SelectPrefix>> \o NamedGame(turn.req)
     /\ activeGames = turn.pre

C6_AcceptWithoutSession ==
  /\ AcceptTurn
  /\ NamedGame(turn.req) = <<"m2">>
  /\ DOMAIN activeGames = {<<"m1">>}

-----------------------------------------------------------------------------
(* C7 *)

\* C7: a challenge command whose first option is missing or is no catalog
\* choice is answered 'invalid request' and creates no session.
C7_UnrecognizedChoiceRejected ==
  (/\ ChallengeTurn
   /\ \/ turn.req.options = <<>>
      \/ turn.req.options[1] \notin RPSChoices) =>
     /\ Len(turn.sent) = 1
     /\ IsClientError(turn.sent[1], "invalid request")
     /\ activeGames = turn.pre

-----------------------------------------------------------------------------
(* C8 *)

\* C8: a select for a live session, by a resolvable user, whose selected
\* value is missing or is no catalog choice is answered 'invalid choice' and
\* never with a result message; the resolver is called with two catalog
\* choices only.
C8_UnrecognizedSelectionRejected ==
  /\ (/\ SelectTurn
      /\ NamedGame(turn.req) \in DOMAIN turn.pre
      /\ UserResolvable(turn.req)
      /\ \/ turn.req.values = <<>>
         \/ turn.req.values[1] \notin RPSChoices) =>
        /\ Len(turn.sent) = 1
        /\ IsClientError(turn.sent[1], "invalid choice")
  /\ (SelectTurn /\ turn.resolverArgs # Absent) =>
        /\ turn.resolverArgs[1][1] \in RPSChoices
        /\ turn.resolverArgs[1][2] \in RPSChoices

-----------------------------------------------------------------------------
(* C9 *)

\* The turn handled an inbound event (it is not the resumption of a
\* suspended handler).
EventTurn ==
  turn.step \in {"ping", "test", "challenge", "unknownCommand", "accept",
                 "select", "strayComponent", "unknownType"}

\* The event has a branch of its own in the router.
KnownEvent(req) ==
  \/ req.type = "PING"
  \/ req.type = "APPLICATION_COMMAND" /\ req.name \in {<<"test">>, <<"challenge">>}
  \/ /\ req.type = "MESSAGE_COMPONENT"
     /\ req.custom_id # Absent
     /\ Len(req.custom_id[1]) >= 1
     /\ req.custom_id[1][1] \in {AcceptPrefix, SelectPrefix}

\* C9: every event other than a Verification, a 'test' or 'challenge'
\* command or a component with the accept or select prefix is answered with
\* a client error, 'unknown interaction type' or 'unknown command'.
C9_UnknownEventsGetClientError ==
  (EventTurn /\ ~KnownEvent(turn.req)) =>
     /\ Len(turn.sent) = 1
     /\ \/ IsClientError(turn.sent[1], "unknown interaction type")
        \/ IsClientError(turn.sent[1], "unknown command")

-----------------------------------------------------------------------------
(* C10 *)

\* C10: when the DELETE requested by an accept fails, the handler returns
\* without throwing and without sending an error response, and the session
\* store is what it was; the DELETE is requested by a handler whose menu
\* response has been sent.
C10_DeleteFailureIsCaught ==
  /\ (turn.step = "acceptSettled" /\ turn.failed) =>
        /\ ~turn.threw
        /\ turn.sent = <<>>
        /\ turn.webhooks = <<>>
        /\ activeGames = turn.pre
  /\ turn.step = "acceptDelete" =>
        /\ Len(turn.webhooks) = 1
        /\ turn.webhooks[1].method = "DELETE"
        /\ turn.sent = <<>>
        /\ \E k \in BagToSet(suspended) :
             /\ k.pc = "awaitDelete"
             /\ k.endpoint = turn.webhooks[1].endpoint
             /\ k.headersSent

C10_DeleteFailed ==
  /\ turn.step = "acceptSettled"
  /\ turn.failed
  /\ <<"m1">> \in DOMAIN activeGames

-----------------------------------------------------------------------------
(* C12 *)

\* The challenge passed the checks of the code: the context's field and the
\* first option are present.
AcceptedChallenge ==
  ChallengeTurn /\ UserResolvable(turn.req) /\ turn.req.options # <<>>

\* C12: a valid challenge whose id M already has a session replaces it
\* without error: the answer is the challenge message, the store holds the
\* same keys as before with the new challenger and choice under M and every
\* other session as it was; a select that then resolves M is computed from
\* the session the store holds, the one of the later challenge.
C12_ChallengeOverwrites ==
  /\ (AcceptedChallenge /\ turn.req.id \in DOMAIN turn.pre) =>
        /\ ~turn.threw
        /\ turn.sent = <<ChallengeMessage(ResolvedUser(turn.req), turn.req.id)>>
        /\ DOMAIN activeGames = DOMAIN turn.pre
        /\ activeGames[turn.req.id] =
             [id |-> ResolvedUser(turn.req), objectName |-> turn.req.options[1]]
        /\ \A g \in DOMAIN turn.pre \ {turn.req.id} : activeGames[g] = turn.pre[g]
  /\ SentResult =>
        /\ turn.resolverArgs =
             << <<turn.pre[NamedGame(turn.req)].objectName, turn.req.values[1]>> >>
        /\ turn.sent[1].data.content.user \in
             {Absent, <<turn.pre[NamedGame(turn.req)].id>>, <<ResolvedUser(turn.req)>>}

C12_SecondChallengeReplacesFirst ==
  /\ AcceptedChallenge
  /\ turn.req.id = <<"m1">>
  /\ <<"m1">> \in DOMAIN turn.pre
  /\ turn.pre[<<"m1">>] = [id |-> "U1", objectName |-> "rock"]
  /\ activeGames[<<"m1">>] = [id |-> "U2", objectName |-> "paper"]

-----------------------------------------------------------------------------
(* C13 *)

\* C13: a Verification is answered with exactly one PONG and a 'test'
\* command with exactly one channel message "hello world ..." without
\* components; neither issues an outbound request nor changes the store.
C13_PingAndTestAreTerminal ==
  /\ turn.step = "ping" => turn.sent = <<[status |-> 200, type |-> "PONG"]>>
  /\ turn.step = "test" =>
        /\ Len(turn.sent) = 1
        /\ turn.sent[1].status = 200
        /\ turn.sent[1].type = "CHANNEL_MESSAGE_WITH_SOURCE"
        /\ DOMAIN turn.sent[1].data = {"content"}
        /\ turn.sent[1].data.content[1] = "hello world"
  /\ turn.step \in {"ping", "test"} =>
        /\ turn.webhooks = <<>>
        /\ activeGames = turn.pre
        /\ ~turn.threw

C13_PingWithLiveSessions ==
  /\ turn.step = "ping"
  /\ DOMAIN activeGames = GameIds
  /\ BagCardinality(suspended) = 1

-----------------------------------------------------------------------------
(* C14 *)

\* C14: the responder whose select resolves a session is a different user
\* from the challenger stored in it.
C14_ResponderIsNotChallenger ==
  SentResult => ResolvedUser(turn.req) # turn.pre[NamedGame(turn.req)].id

-----------------------------------------------------------------------------
(* C15 *)

\* C15: no PATCH is ever requested: a select that has sent its result issues
\* no outbound request, and every outbound request is the DELETE of an
\* accept handler resumed after its response.
C15_NoFollowUpEdit ==
  /\ SentResult => turn.webhooks = <<>>
  /\ turn # Quiet =>
        \A i \in DOMAIN turn.webhooks :
           /\ turn.webhooks[i].method = "DELETE"
           /\ turn.step = "acceptDelete"

C15_ResultThenReturn ==
  /\ SentResult
  /\ turn.webhooks = <<>>
  /\ turn.sent[1].data.content.text = "tie"

-----------------------------------------------------------------------------
(* C16 *)

\* C16: sessions never expire.  The store after a handler step is the store
\* before it, with the session of an accepted challenge put under its id,
\* or without the session a select has resolved; every other step
\* (Verification, test, unknown command or type, accept and its
\* resumptions, rejected challenge, select that sends no result) leaves it
\* as it was.  A live id is never one whose latest session was resolved.
C16_SessionsNeverExpire ==
  /\ turn # Quiet =>
        IF AcceptedChallenge
        THEN /\ DOMAIN activeGames = DOMAIN turn.pre \cup {turn.req.id}
             /\ \A g \in DOMAIN turn.pre \ {turn.req.id} :
                  activeGames[g] = turn.pre[g]
        ELSE IF SentResult
        THEN /\ DOMAIN activeGames = DOMAIN turn.pre \ {NamedGame(turn.req)}
             /\ \A g \in DOMAIN activeGames : activeGames[g] = turn.pre[g]
        ELSE activeGames = turn.pre
  /\ DOMAIN activeGames \cap resolved = {}

C16_AbandonedChallengesStay ==
  /\ turn.step = "acceptSettled"
  /\ DOMAIN activeGames = GameIds
  /\ observed = GameIds

-----------------------------------------------------------------------------
(* C17 *)

\* The field the context does not select.
OtherUserField(req) == IF req.context = 0 THEN req.user ELSE req.member

\* C17: the acting user is read from member.user.id when context is 0 and
\* from user.id otherwise, with no fallback: when that field is absent a
\* challenge is answered 'invalid request' and a select for a live session
\* 'invalid user', whatever the other field carries; when it is present the
\* session of an accepted challenge holds its value.
C17_UserFieldByContext ==
  /\ (ChallengeTurn /\ ~UserResolvable(turn.req)) =>
        /\ turn.sent = <<[status |-> 400, error |-> "invalid request"]>>
        /\ activeGames = turn.pre
  /\ (/\ SelectTurn
      /\ NamedGame(turn.req) \in DOMAIN turn.pre
      /\ ~UserResolvable(turn.req)) =>
        /\ turn.sent = <<[status |-> 400, error |-> "invalid user"]>>
        /\ activeGames = turn.pre
  /\ AcceptedChallenge =>
        activeGames[turn.req.id].id =
          (IF turn.req.context = 0 THEN turn.req.member[1] ELSE turn.req.user[1])

C17_OtherFieldIgnored ==
  /\ SelectTurn
  /\ NamedGame(turn.req) \in DOMAIN turn.pre
  /\ ~UserResolvable(turn.req)
  /\ OtherUserField(turn.req) = <<"U2">>
  /\ turn.req.values = <<"rock">>

-----------------------------------------------------------------------------
(* C18 *)

\* C18: a handled event sends at most one response.  A step that handles an
\* inbound event sends at most one; the resumptions of an accept handler,
\* whose response is already sent, send none, the catch path included.
C18_AtMostOneResponse ==
  /\ turn # Quiet => Len(turn.sent) <= 1
  /\ turn.step \in {"acceptDelete", "acceptSettled"} => turn.sent = <<>>
  /\ \A k \in BagToSet(suspended) : k.headersSent

C18_CatchSendsNothing ==
  /\ turn.step = "acceptSettled"
  /\ turn.failed
  /\ turn.sent = <<>>
  /\ BagCardinality(suspended) = 1

-----------------------------------------------------------------------------
(* C11 *)

\* The endpoint of public message p.
EndpointOf(p) == [path |-> "webhooks/messages", message |-> <<p>>]

\* Accept handlers for public message p that have not yet requested its
\* deletion, and those waiting for the deletion to settle.
AwaitingSend(p) == CopiesIn(Continuation("awaitSend", EndpointOf(p)), suspended)

AwaitingDelete(p) == CopiesIn(Continuation("awaitDelete", EndpointOf(p)), suspended)

\* C11: under the ordered protocol, every accept for session M, whatever
\* handlers are suspended beside it, sends one menu response and leaves the
\* store as it was; its handler requests the deletion of the public message
\* of M exactly once (one DELETE in the step after the send, none when it
\* settles, so DELETEs issued = accepts handled - handlers still before the
\* request); no accept step changes the store, whether its DELETE succeeds
\* or fails; and a select for a live M is answered with the result and
\* removes M, whatever happened to the deletions.
C11_AcceptsLeaveSessionResolvable ==
  /\ AcceptTurn =>
       /\ Len(turn.sent) = 1
       /\ turn.sent[1] \in {ChoiceMenu(NamedGame(turn.req), o) : o \in ShuffledOptions}
       /\ turn.webhooks = <<>>
       /\ turn.req.message = <<PublicMessageOf(NamedGame(turn.req))>>
       /\ activeGames = turn.pre
  /\ turn.step = "acceptDelete" =>
       /\ turn.sent = <<>>
       /\ Len(turn.webhooks) = 1
       /\ \E p \in PublicMessageIds : DeletesIn(turn, p) = 1
       /\ activeGames = turn.pre
  /\ turn.step = "acceptSettled" =>
       /\ turn.sent = <<>>
       /\ turn.webhooks = <<>>
       /\ ~turn.threw
       /\ activeGames = turn.pre
  /\ \A p \in PublicMessageIds :
       /\ ledger.deletes[p] = ledger.accepts[p] - AwaitingSend(p)
       /\ AwaitingSend(p) + AwaitingDelete(p) <= ledger.accepts[p]
  /\ (SelectTurn /\ HasGame(turn.pre, NamedGame(turn.req))) =>
       /\ SentResult
       /\ ~HasGame(activeGames, NamedGame(turn.req))

\* Two accepts for m1 were handled and both have settled, the second
\* deletion failing on the message the first had deleted; the first select
\* for m1 then resolves the game.
C11_ResolvedAfterTwoAccepts ==
  /\ SentResult
  /\ NamedGame(turn.req) = <<"m1">>
  /\ ledger.accepts["p1"] = 2
  /\ ledger.deletes["p1"] = 2
  /\ "p1" \in ledger.lateFailure
  /\ AwaitingSend("p1") + AwaitingDelete("p1") = 0

-----------------------------------------------------------------------------
(* C19 *)

\* The custom ids a turn sent to the client.
TokensSent == {e.custom_id : e \in IssuedBy(turn)}

\* C19: under the ordered protocol, a response carries an accept token only
\* when it answers a challenge that created a session, and the token names
\* that challenge's interaction id; it carries a select token only when it
\* answers an accept, and the token names the id of that accept's token; no
\* other token is sent.  So every token a client holds names an id that was
\* challenged (accept token) or accepted (select token), every accepted id
\* was challenged before, the id each accept and select extracts is such an
\* id, and a result message for M comes after an accept for M.
C19_TokensFollowProtocolOrder ==
  /\ turn # Quiet =>
       \A c \in TokensSent :
          \/ /\ StartsWith(c, AcceptPrefix)
             /\ AcceptedChallenge
             /\ HasGame(activeGames, turn.req.id)
             /\ c = <<AcceptPrefix>> \o turn.req.id
          \/ /\ StartsWith(c, SelectPrefix)
             /\ AcceptTurn
             /\ turn.req.custom_id[1] = <<AcceptPrefix>> \o Tail(c)
  /\ \A e \in ledger.issued :
       \/ e.type = "BUTTON" /\ StartsWith(e.custom_id, AcceptPrefix)
            /\ Tail(e.custom_id) \in ledger.challenged
       \/ e.type = "STRING_SELECT" /\ StartsWith(e.custom_id, SelectPrefix)
            /\ Tail(e.custom_id) \in ledger.accepted
  /\ ledger.accepted \subseteq ledger.challenged
  /\ AcceptTurn => GameIdOfAccept(turn.req.custom_id[1]) \in ledger.challenged
  /\ SelectTurn => GameIdOfSelect(turn.req.custom_id[1]) \in ledger.accepted
  /\ SentResult =>
       /\ NamedGame(turn.req) \in ledger.accepted
       /\ NamedGame(turn.req) \in ledger.challenged

\* With both ids challenged and accepted, a select on the menu of m2 is
\* answered with the result while the session of m1 is still open.
C19_ResultAfterAcceptAfterChallenge ==
  /\ SentResult
  /\ NamedGame(turn.req) = <<"m2">>
  /\ ledger.accepted = GameIds
  /\ HasGame(activeGames, <<"m1">>)

====
